---- MODULE Spec2Model ----
(***************************************************************************)
(* Model of the SplaTAM capture-manifest pair:                             *)
(*   - the Manifest Writer, create_dataset_from_files in                   *)
(*     replace_files/SplaTAM/nerfcapture2dataset.py, and                   *)
(*   - the Manifest Reader, NeRFCaptureDataset in                          *)
(*     replace_files/SplaTAM/gradslam_nerfcapture.py.                      *)
(*                                                                         *)
(* Conventions.  A Python dict is a TLA+ record whose optional keys may be *)
(* missing from its DOMAIN.  A float is an exact rational [num, den] with  *)
(* den > 0 (floating-point rounding is not modelled).  A 4x4 matrix is a   *)
(* tuple of four rows of four integers.  An image is one pixel.  The       *)
(* camera intrinsics (fl_x, fl_y, cx, cy, w, h) are copied through by both *)
(* programs without any decision resting on them and are left out.         *)
(* Source files that exist are taken to be decodable, except pose files,   *)
(* whose load may fail (the only load the code guards with try/except).    *)
(***************************************************************************)
EXTENDS Integers, Sequences, FiniteSets, TLC

\* ------------------------------------------------------------------ bounds

\* Largest num_frames a Writer run is configured with.
MaxFrames == 2

\* ------------------------------------------------------- program constants

\* data_config.get('depth_scale', 1000.0)
DefaultDepthScale == 1000
\* "integer_depth_scale": float(depth_scale)/65535.0
IntegerDepthDivisor == 65535
\* depth_data / 1000.0 when depth_in_millimeters
MillimetersPerMeter == 1000
\* np.uint16 holds 0 .. 2^16 - 1
Uint16Modulus == 65536
\* png_depth_scale fallback 6553.5, as the rational LegacyScaleNum / LegacyScaleDen
LegacyScaleNum == 65535
LegacyScaleDen == 10

\* ---------------------------------------------------------------- helpers

\* dict.get(key, default)
Get(d, key, default) == IF key \in DOMAIN d THEN d[key] ELSE default

RECURSIVE GCD(_, _)
GCD(a, b) == IF b = 0 THEN a ELSE GCD(b, a % b)

\* the rational n / d in lowest terms, n >= 0, d > 0
Rat(n, d) == [num |-> n \div GCD(n, d), den |-> d \div GCD(n, d)]

\* np.eye(4).tolist()
Eye4 == << <<1, 0, 0, 0>>, <<0, 1, 0, 0>>, <<0, 0, 1, 0>>, <<0, 0, 0, 1>> >>

\* str.lower() on the characters that occur in an answer
LowerChar(c) ==
    CASE c = "Y" -> "y"
      [] c = "N" -> "n"
      [] c = "E" -> "e"
      [] c = "S" -> "s"
      [] c = "O" -> "o"
      [] OTHER -> c

Lower(s) == [i \in 1..Len(s) |-> LowerChar(s[i])]

IsSpace(c) == c \in {" ", "\t"}

RECURSIVE LStrip(_)
LStrip(s) == IF s # <<>> /\ IsSpace(Head(s)) THEN LStrip(Tail(s)) ELSE s

RECURSIVE RStrip(_)
RStrip(s) ==
    IF s # <<>> /\ IsSpace(s[Len(s)]) THEN RStrip(SubSeq(s, 1, Len(s) - 1)) ELSE s

\* str.strip()
Strip(s) == RStrip(LStrip(s))

\* A faulty variant of Declined: only an answer that starts with "n" declines.
DeclinedOnlyOnN(answer) ==
    SubSeq(Strip(Lower(answer)) \o <<"y">>, 1, 1) = <<"n">>

\* (input(...).lower().strip()+"y")[:1] != "y"
Declined(answer) ==
    SubSeq(Strip(Lower(answer)) \o <<"y">>, 1, 1) # <<"y">>

\* A faulty variant of Truncated: depth_in_millimeters is ignored.
TruncatedIgnoringMm(raw, in_mm, depth_scale) ==
    (raw.num * depth_scale) \div raw.den

\* depth_data / 1000.0 if depth_in_millimeters, then depth_data * depth_scale,
\* truncated toward zero (depths are non-negative)
Truncated(raw, in_mm, depth_scale) ==
    LET den == IF in_mm THEN raw.den * MillimetersPerMeter ELSE raw.den
    IN  (raw.num * depth_scale) \div den

\* .astype(np.uint16) of a non-negative integral float.  Out of range the C
\* cast is undefined: builds wrap modulo 2^16, saturate, or give 0.
Uint16Cast(x) ==
    IF x < Uint16Modulus THEN {x} ELSE {x % Uint16Modulus, Uint16Modulus - 1, 0}

\* depth_uint16 = (depth_data * depth_scale).astype(np.uint16): the possible
\* stored values
Quantize(raw, in_mm, depth_scale) == Uint16Cast(Truncated(raw, in_mm, depth_scale))

\* A faulty variant of IntegerDepthScale: the division by 65535 is left out.
IntegerDepthScaleUndivided(depth_scale) == Rat(depth_scale, 1)

\* float(depth_scale)/65535.0
IntegerDepthScale(depth_scale) == Rat(depth_scale, IntegerDepthDivisor)

\* ------------------------------------------------------------ Writer state

VARIABLES
    wpc,          \* where create_dataset_from_files is
    overwrite,    \* its overwrite argument
    data_config,  \* its data_config argument
    stdin,        \* the lines input() can still read
    fs,           \* the tree at save_path
    fs0,          \* the tree at save_path when the run started
    src,          \* what the run found in data_dir, per frame index processed
    manifest,     \* the manifest dict
    frame_idx,    \* the loop variable
    stdin0,       \* the lines on standard input when the run started
    log,          \* what was printed
    exit_code     \* the process's exit status, -1 while running

wvars == <<wpc, overwrite, data_config, stdin, stdin0, fs, fs0, src, manifest,
           frame_idx, log, exit_code>>

\* ------------------------------------------------------------ Reader state

VARIABLES
    rpc,                     \* where the construction of NeRFCaptureDataset is
    manifest_file,           \* the parsed content of transforms.json
    cams_metadata,           \* self.cams_metadata
    frames_metadata,         \* self.frames_metadata
    filepath_index_mapping,  \* self.filepath_index_mapping
    image_names,             \* self.image_names
    png_depth_scale,         \* config_dict["camera_params"]["png_depth_scale"]
    color_paths,             \* get_filepaths' color_paths
    depth_paths,             \* get_filepaths' depth_paths
    tmp_poses,               \* self.tmp_poses
    returned                 \* what get_filepaths and load_poses returned

rvars == <<rpc, manifest_file, cams_metadata, frames_metadata,
           filepath_index_mapping, image_names, png_depth_scale, color_paths,
           depth_paths, tmp_poses, returned>>

\* ----------------------------------------------- depth pipeline, one pixel

VARIABLES
    dpc,       \* how far the pixel has come: Writer, manifest, Reader
    dscale,    \* the Writer's depth_scale
    dmm,       \* the Writer's depth_in_millimeters
    draw,      \* the depth source's value
    dids,      \* the manifest's integer_depth_scale
    dstored,   \* the uint16 value in depth/{i}.png
    dpng       \* the Reader's png_depth_scale

dvars == <<dpc, dscale, dmm, draw, dids, dstored, dpng>>

\* ------------------------------------------- coordinate conversion, one pose

VARIABLES
    c2w0,      \* the pose before any conversion
    pose,      \* the pose after napplied conversions
    napplied

cvars == <<c2w0, pose, napplied>>

vars == <<wvars, rvars, dvars, cvars>>

NoManifest == [frames |-> <<>>]

\* save_path does not exist
NoTree == [exists |-> FALSE, dirs |-> {}, rgb |-> {}, depth |-> {},
           transforms |-> <<>>, other |-> {}]

\* save_path after shutil.rmtree + mkdir: an empty directory
EmptyTree == [NoTree EXCEPT !.exists = TRUE]

\* a directory an earlier run left, with a file of the user's next to it
StaleTree == [exists |-> TRUE, dirs |-> {"rgb", "depth"}, rgb |-> {0, 5},
              depth |-> {[idx |-> 0, q |-> 7]},
              transforms |-> <<[integer_depth_scale |-> Rat(1, 1), frames |-> <<>>]>>,
              other |-> {"notes.txt"}]

Trees == {NoTree, EmptyTree, StaleTree}

\* what the user types at the prompt; no line at all is end of input
Answers == { <<>>, <<"y">>, <<"Y">>, <<"n">>, <<"N">>, <<"n", "o">>,
             <<" ", "Y", "e", "s">>, <<" ">>, <<" ", "n">>, <<"x">> }

Stdins == {<<>>} \cup {<<a>> : a \in Answers}

Scales == {DefaultDepthScale, IntegerDepthDivisor}

OptionalKeys == {"depth_scale", "depth_in_millimeters", "pose_format"}

Configs ==
    { [k \in {"num_frames"} \cup opt |->
          CASE k = "num_frames" -> n
            [] k = "depth_scale" -> s
            [] k = "depth_in_millimeters" -> TRUE
            [] k = "pose_format" -> "pose/{}.npy"]
      : n \in 0..MaxFrames, s \in {IntegerDepthDivisor}, opt \in SUBSET OptionalKeys }

\* a pose file's matrix
SamplePoses ==
    { << <<0, -1, 0, 2>>, <<1, 0, 0, -3>>, <<0, 0, 1, 4>>, <<0, 0, 0, 1>> >>,
      << <<1, 2, 3, 4>>, <<5, 6, 7, 8>>, <<-1, -2, -3, -4>>, <<0, 0, 0, 1>> >> }

\* the pose source of a frame: no file, a file whose load raises, a matrix
PoseFiles == {[kind |-> "missing"], [kind |-> "unreadable"]}
             \cup {[kind |-> "ok", data |-> m] : m \in SamplePoses}

\* the depth source of a frame: no file, or a depth value
WriterDepths == {Rat(1500, 1), Rat(3, 4)}

DepthFiles == {[kind |-> "missing"]}
              \cup {[kind |-> "ok", raw |-> r] : r \in WriterDepths}

Msg(text, idx) == [msg |-> text, frame |-> idx]

WInit ==
    /\ wpc = "check"
    /\ overwrite \in BOOLEAN
    /\ data_config \in Configs
    /\ fs \in Trees
    /\ fs0 = fs
    /\ stdin \in (IF fs.exists /\ overwrite THEN Stdins ELSE {<<>>})
    /\ stdin0 = stdin
    /\ src = <<>>
    /\ manifest = NoManifest
    /\ frame_idx = 0
    /\ log = <<>>
    /\ exit_code = -1

\* lines 31-39: the destructive-overwrite policy
CheckExisting ==
    /\ wpc = "check"
    /\ IF ~fs.exists
       THEN /\ wpc' = "setup"
            /\ UNCHANGED <<fs, stdin, log, exit_code>>
       ELSE IF ~overwrite
       THEN /\ log' = Append(log, Msg("save_path already exists", -1))
            /\ wpc' = "exited"
            /\ exit_code' = 1
            /\ UNCHANGED <<fs, stdin>>
       ELSE IF stdin = <<>>
       THEN \* input() raises EOFError: the traceback ends the process
            /\ wpc' = "exited"
            /\ exit_code' = 1
            /\ UNCHANGED <<fs, stdin, log>>
       ELSE /\ stdin' = Tail(stdin)
            /\ IF Declined(Head(stdin))
               THEN /\ wpc' = "exited"
                    /\ exit_code' = 1
                    /\ UNCHANGED <<fs, log>>
               ELSE /\ fs' = NoTree
                    /\ wpc' = "setup"
                    /\ UNCHANGED <<log, exit_code>>
    /\ UNCHANGED <<overwrite, data_config, stdin0, fs0, src, manifest, frame_idx>>
    /\ UNCHANGED <<rvars, dvars, cvars>>

\* lines 41-72: the directories and the empty manifest
CreateDirs ==
    /\ wpc = "setup"
    /\ fs' = [fs EXCEPT !.exists = TRUE, !.dirs = @ \cup {"rgb", "depth"}]
    /\ log' = Append(log, Msg("Creating dataset", -1))
    /\ manifest' =
           [integer_depth_scale |->
                IntegerDepthScale(Get(data_config, "depth_scale", DefaultDepthScale)),
            frames |-> <<>>]
    /\ frame_idx' = 0
    /\ wpc' = "frames"
    /\ UNCHANGED <<overwrite, data_config, stdin, stdin0, fs0, src, exit_code>>
    /\ UNCHANGED <<rvars, dvars, cvars>>

\* lines 103-126: depth is None, or the uint16 image that was written
DepthResults(d) ==
    IF d.kind = "missing"
    THEN {<<>>}
    ELSE {<<q>> : q \in Quantize(d.raw,
                                 Get(data_config, "depth_in_millimeters", FALSE),
                                 Get(data_config, "depth_scale", DefaultDepthScale))}

\* A faulty variant of PoseLoaded: the pose file is loaded whether or not a
\* pose_format is configured.
PoseLoadedUnguarded(p) == p.kind = "ok"

\* lines 134-142: the pose file is there and np.load / np.loadtxt returns
PoseLoaded(p) == "pose_format" \in DOMAIN data_config /\ p.kind = "ok"

\* lines 128-145
TransformMatrix(p) == IF PoseLoaded(p) THEN p.data ELSE Eye4

\* lines 143-145: what the except branch prints
PoseLog(p, idx) ==
    IF "pose_format" \in DOMAIN data_config /\ p.kind = "unreadable"
    THEN <<Msg("Error loading pose", idx), Msg("Using identity matrix as fallback", idx)>>
    ELSE <<>>

\* A faulty variant of FrameData: depth_path is always written.
FrameDataAlwaysDepth(idx, depth, p) ==
    [transform_matrix |-> TransformMatrix(p),
     file_path |-> [dir |-> "rgb", stem |-> idx],
     depth_path |-> [dir |-> "depth", stem |-> idx]]

\* lines 147-159
FrameData(idx, depth, p) ==
    IF depth # <<>>
    THEN [transform_matrix |-> TransformMatrix(p),
          file_path |-> [dir |-> "rgb", stem |-> idx],
          depth_path |-> [dir |-> "depth", stem |-> idx]]
    ELSE [transform_matrix |-> TransformMatrix(p),
          file_path |-> [dir |-> "rgb", stem |-> idx]]

\* A faulty variant of SkipFrame: a frame without colour is appended all the same.
SkipFrameAppends(idx) ==
    /\ log' = log \o <<Msg("Processing frame", idx), Msg("RGB file not found", idx)>>
    /\ src' = Append(src, [color |-> FALSE])
    /\ manifest' = [manifest EXCEPT !.frames =
                        Append(@, FrameData(idx, <<>>, [kind |-> "missing"]))]
    /\ UNCHANGED fs

\* lines 75-81: rgb_path does not exist
SkipFrame(idx) ==
    /\ log' = log \o <<Msg("Processing frame", idx), Msg("RGB file not found", idx)>>
    /\ src' = Append(src, [color |-> FALSE])
    /\ UNCHANGED <<fs, manifest>>

\* lines 83-161: rgb_path exists
WriteFrame(idx, d, p) ==
    \E depth \in DepthResults(d) :
        /\ log' = log \o <<Msg("Processing frame", idx)>> \o PoseLog(p, idx)
        /\ src' = Append(src, [color |-> TRUE, depth |-> d, pose |-> p])
        /\ fs' = [fs EXCEPT
                    !.rgb = @ \cup {idx},
                    !.depth = IF depth = <<>> THEN @
                              ELSE {e \in @ : e.idx # idx}
                                   \cup {[idx |-> idx, q |-> depth[1]]}]
        /\ manifest' = [manifest EXCEPT !.frames = Append(@, FrameData(idx, depth, p))]

\* lines 74-161: one iteration of the loop over range(num_frames)
ProcessFrame ==
    /\ wpc = "frames"
    /\ frame_idx < data_config.num_frames
    /\ \E c \in BOOLEAN, d \in DepthFiles, p \in PoseFiles :
           IF c THEN WriteFrame(frame_idx, d, p) ELSE SkipFrame(frame_idx)
    /\ frame_idx' = frame_idx + 1
    /\ UNCHANGED <<wpc, overwrite, data_config, stdin, stdin0, fs0, exit_code>>
    /\ UNCHANGED <<rvars, dvars, cvars>>

\* lines 163-168, and the normal end of the process
SaveManifest ==
    /\ wpc = "frames"
    /\ frame_idx >= data_config.num_frames
    /\ log' = log \o <<Msg("Saving manifest", -1), Msg("Dataset created", -1)>>
    /\ fs' = [fs EXCEPT !.transforms = <<manifest>>]
    /\ wpc' = "done"
    /\ exit_code' = 0
    /\ UNCHANGED <<overwrite, data_config, stdin, stdin0, fs0, src, manifest, frame_idx>>
    /\ UNCHANGED <<rvars, dvars, cvars>>

\* ------------------------------------------------------------------ Reader

\* Largest number of frames in a manifest handed to the Reader.
MaxManifestFrames == 3

\* the file stems of a manifest's frames
Stems == {1, 2, 10, 11}

\* a relative path "<dir>/<stem>.png"
RelPath(dir, stem) == [dir |-> dir, stem |-> stem]

\* one FrameRecord for each stem, with or without depth_path
FrameRecords(stem) ==
    { [transform_matrix |-> m, file_path |-> RelPath("rgb", stem)] : m \in SamplePoses }
    \cup
    { [transform_matrix |-> m, file_path |-> RelPath("rgb", stem),
       depth_path |-> RelPath("depth", stem)] : m \in {Eye4} }

\* the frames lists: every order of distinct stems
FrameLists ==
    UNION { { fr \in [1..n -> UNION {FrameRecords(s) : s \in Stems}] :
                \A i, j \in 1..n : i # j => fr[i].file_path # fr[j].file_path }
            : n \in 0..MaxManifestFrames }

\* the manifests a Reader is given: a Writer's, or a device's without
\* integer_depth_scale
ManifestFiles ==
    { [frames |-> fr] : fr \in FrameLists }
    \cup { [integer_depth_scale |-> IntegerDepthScale(s), frames |-> fr]
           : s \in {DefaultDepthScale}, fr \in FrameLists }

\* int(Path(x).stem)
StemOf(path) == path.stem

RECURSIVE InsertByStem(_, _)
InsertByStem(sorted, x) ==
    IF sorted = <<>> THEN <<x>>
    ELSE IF StemOf(x) < StemOf(Head(sorted)) THEN <<x>> \o sorted
    ELSE <<Head(sorted)>> \o InsertByStem(Tail(sorted), x)

\* natsorted(names, key=lambda x: int(Path(x).stem)): ascending, stable
RECURSIVE NatSorted(_)
NatSorted(names) ==
    IF names = <<>> THEN <<>>
    ELSE InsertByStem(NatSorted(SubSeq(names, 1, Len(names) - 1)), names[Len(names)])

\* {frame["file_path"]: index for index, frame in enumerate(frames)}: a later
\* frame with the same file_path replaces an earlier one
create_filepath_index_mapping(frames) ==
    [fp \in {frames[i].file_path : i \in 1..Len(frames)} |->
        CHOOSE i \in 0..(Len(frames) - 1) :
            /\ frames[i + 1].file_path = fp
            /\ \A j \in 0..(Len(frames) - 1) : frames[j + 1].file_path = fp => j <= i]

\* lines 54-62: 1.0 / integer_depth_scale, or the legacy 6553.5
PngDepthScale(metadata) ==
    IF "integer_depth_scale" \in DOMAIN metadata
    THEN Rat(metadata.integer_depth_scale.den, metadata.integer_depth_scale.num)
    ELSE Rat(LegacyScaleNum, LegacyScaleDen)

\* A faulty variant of P: a quarter turn about the first axis.
PQuarterTurn == << <<1, 0, 0, 0>>, <<0, 0, -1, 0>>, <<0, 1, 0, 0>>, <<0, 0, 0, 1>> >>

\* lines 94-101
P == << <<1, 0, 0, 0>>, <<0, -1, 0, 0>>, <<0, 0, -1, 0>>, <<0, 0, 0, 1>> >>

\* A @ B
MatMul(A, B) ==
    [i \in 1..4 |-> [j \in 1..4 |->
        A[i][1] * B[1][j] + A[i][2] * B[2][j] + A[i][3] * B[3][j] + A[i][4] * B[4][j]]]

\* A.T
Transpose(A) == [i \in 1..4 |-> [j \in 1..4 |-> A[j][i]]]

\* line 119: _pose = P @ c2w @ P.T
ToGradSLAM(c2w) == MatMul(MatMul(P, c2w), Transpose(P))

\* line 114: frame_metadata['file_path'].replace('rgb', 'depth')
ReplaceRgbByDepth(path) == [path EXCEPT !.dir = IF @ = "rgb" THEN "depth" ELSE @]

\* lines 110-114
DepthPathOf(frame_metadata) ==
    IF "depth_path" \in DOMAIN frame_metadata
    THEN frame_metadata.depth_path
    ELSE ReplaceRgbByDepth(frame_metadata.file_path)

RInit ==
    /\ rpc = "new"
    /\ manifest_file \in ManifestFiles
    /\ cams_metadata = NoManifest
    /\ frames_metadata = <<>>
    /\ filepath_index_mapping = <<>>
    /\ image_names = <<>>
    /\ png_depth_scale = Rat(0, 1)
    /\ color_paths = <<>>
    /\ depth_paths = <<>>
    /\ tmp_poses = <<>>
    /\ returned = [paths |-> <<>>, poses |-> <<>>]

\* lines 33-69: __init__ up to the call of the base class's __init__
Construct ==
    /\ rpc = "new"
    /\ cams_metadata' = manifest_file
    /\ frames_metadata' = manifest_file.frames
    /\ filepath_index_mapping' = create_filepath_index_mapping(manifest_file.frames)
    /\ image_names' =
           NatSorted([i \in 1..Len(manifest_file.frames) |->
                          manifest_file.frames[i].file_path])
    /\ png_depth_scale' = PngDepthScale(manifest_file)
    /\ rpc' = "constructed"
    /\ UNCHANGED <<manifest_file, color_paths, depth_paths, tmp_poses, returned>>
    /\ UNCHANGED <<wvars, dvars, cvars>>

\* lines 90-101: get_filepaths is entered
GetFilepathsEnter ==
    /\ rpc = "constructed"
    /\ color_paths' = <<>>
    /\ depth_paths' = <<>>
    /\ tmp_poses' = <<>>
    /\ rpc' = "listing"
    /\ UNCHANGED <<manifest_file, cams_metadata, frames_metadata,
                   filepath_index_mapping, image_names, png_depth_scale, returned>>
    /\ UNCHANGED <<wvars, dvars, cvars>>

\* lines 104-120: one iteration over enumerate(self.frames_metadata)
GetFilepathsStep ==
    /\ rpc = "listing"
    /\ Len(color_paths) < Len(frames_metadata)
    /\ LET frame_metadata == frames_metadata[Len(color_paths) + 1]
       IN  /\ color_paths' = Append(color_paths, frame_metadata.file_path)
           /\ depth_paths' = Append(depth_paths, DepthPathOf(frame_metadata))
           /\ tmp_poses' = Append(tmp_poses, ToGradSLAM(frame_metadata.transform_matrix))
    /\ UNCHANGED <<rpc, manifest_file, cams_metadata, frames_metadata,
                   filepath_index_mapping, image_names, png_depth_scale, returned>>
    /\ UNCHANGED <<wvars, dvars, cvars>>

\* lines 122-125: load_embeddings is off
GetFilepathsReturn ==
    /\ rpc = "listing"
    /\ Len(color_paths) = Len(frames_metadata)
    /\ returned' = [returned EXCEPT !.paths = <<color_paths, depth_paths>>]
    /\ rpc' = "listed"
    /\ UNCHANGED <<manifest_file, cams_metadata, frames_metadata,
                   filepath_index_mapping, image_names, png_depth_scale,
                   color_paths, depth_paths, tmp_poses>>
    /\ UNCHANGED <<wvars, dvars, cvars>>

\* lines 127-128
LoadPoses ==
    /\ rpc = "listed"
    /\ returned' = [returned EXCEPT !.poses = tmp_poses]
    /\ rpc' = "ready"
    /\ UNCHANGED <<manifest_file, cams_metadata, frames_metadata,
                   filepath_index_mapping, image_names, png_depth_scale,
                   color_paths, depth_paths, tmp_poses>>
    /\ UNCHANGED <<wvars, dvars, cvars>>

\* ---------------------------------------------------------- depth pipeline

\* the Writer's depth scales
DepthScales == {1, 256, DefaultDepthScale, IntegerDepthDivisor}

\* Depth sources run from 0 to MaxDepthQuarters quarters of a unit, besides
\* the values around the uint16 limit.
MaxDepthQuarters == 8

DepthSamples ==
    {Rat(n, 4) : n \in 0..MaxDepthQuarters}
    \cup {Rat(n, 1) : n \in {65, 66, 70, 255, 256, 257, 1500, 32000}}

DInit ==
    /\ dpc = "source"
    /\ dscale \in DepthScales
    /\ dmm \in BOOLEAN
    /\ draw \in DepthSamples
    /\ dids = Rat(0, 1)
    /\ dstored = 0
    /\ dpng = Rat(0, 1)

\* Writer, line 70
WriteIntegerDepthScale ==
    /\ dpc = "source"
    /\ dids' = IntegerDepthScale(dscale)
    /\ dpc' = "manifest"
    /\ UNCHANGED <<dscale, dmm, draw, dstored, dpng>>
    /\ UNCHANGED <<wvars, rvars, cvars>>

\* Writer, lines 112-125
WriteDepthPixel ==
    /\ dpc = "manifest"
    /\ dstored' \in Quantize(draw, dmm, dscale)
    /\ dpc' = "stored"
    /\ UNCHANGED <<dscale, dmm, draw, dids, dpng>>
    /\ UNCHANGED <<wvars, rvars, cvars>>

\* Reader, lines 54-59, on the Writer's manifest
ReadDepthScale ==
    /\ dpc = "stored"
    /\ dpng' = PngDepthScale([integer_depth_scale |-> dids, frames |-> <<>>])
    /\ dpc' = "read"
    /\ UNCHANGED <<dscale, dmm, draw, dids, dstored>>
    /\ UNCHANGED <<wvars, rvars, cvars>>

\* --------------------------------------------------- coordinate conversion

\* Pose entries are built from coefficients in -MaxEntry .. MaxEntry.
MaxEntry == 1

ConvPoses ==
    { [i \in 1..4 |-> [j \in 1..4 |-> a * i + b * j + c * i * j + e]]
      : a, b, c, e \in (-MaxEntry)..MaxEntry }

CInit ==
    /\ c2w0 \in ConvPoses
    /\ pose = c2w0
    /\ napplied = 0

\* line 119, applied to its own result
ApplyConversion ==
    /\ napplied < 2
    /\ pose' = ToGradSLAM(pose)
    /\ napplied' = napplied + 1
    /\ UNCHANGED c2w0
    /\ UNCHANGED <<wvars, rvars, dvars>>

\* ---------------------------------------------------------- specifications

WIdle ==
    /\ wpc = "idle" /\ overwrite = FALSE /\ data_config = [num_frames |-> 0]
    /\ stdin = <<>> /\ stdin0 = <<>> /\ fs = NoTree /\ fs0 = NoTree /\ src = <<>>
    /\ manifest = NoManifest /\ frame_idx = 0 /\ log = <<>> /\ exit_code = -1

RIdle ==
    /\ rpc = "idle" /\ manifest_file = NoManifest /\ cams_metadata = NoManifest
    /\ frames_metadata = <<>> /\ filepath_index_mapping = <<>> /\ image_names = <<>>
    /\ png_depth_scale = Rat(0, 1) /\ color_paths = <<>> /\ depth_paths = <<>>
    /\ tmp_poses = <<>> /\ returned = [paths |-> <<>>, poses |-> <<>>]

DIdle ==
    /\ dpc = "idle" /\ dscale = 1 /\ dmm = FALSE /\ draw = Rat(0, 1)
    /\ dids = Rat(0, 1) /\ dstored = 0 /\ dpng = Rat(0, 1)

CIdle == c2w0 = Eye4 /\ pose = Eye4 /\ napplied = 2

\* a run of the Writer
WNext == CheckExisting \/ CreateDirs \/ ProcessFrame \/ SaveManifest

Init == WInit /\ RIdle /\ DIdle /\ CIdle

Spec == Init /\ [][WNext]_vars

\* the construction of a Reader
RNext == Construct \/ GetFilepathsEnter \/ GetFilepathsStep \/ GetFilepathsReturn
         \/ LoadPoses

InitReader == WIdle /\ RInit /\ DIdle /\ CIdle

SpecReader == InitReader /\ [][RNext]_vars

\* one depth pixel from the Writer's source to the Reader's scale
DNext == WriteIntegerDepthScale \/ WriteDepthPixel \/ ReadDepthScale

InitDepth == WIdle /\ RIdle /\ DInit /\ CIdle

SpecDepth == InitDepth /\ [][DNext]_vars

\* the coordinate conversion applied twice
InitConv == WIdle /\ RIdle /\ DIdle /\ CInit

SpecConv == InitConv /\ [][ApplyConversion]_vars

\* ------------------------------------------------------------------ claims

Abs(x) == IF x < 0 THEN -x ELSE x

\* the manifest's entries for frame index i
EntriesOf(i) ==
    {k \in 1..Len(manifest.frames) : manifest.frames[k].file_path = RelPath("rgb", i)}

\* the run has not been aborted
NotAborted == wpc \in {"frames", "done"} /\ exit_code \in {-1, 0}

\* the run has ended normally: every index was visited, the manifest is on disk
Completed ==
    /\ wpc = "done"
    /\ exit_code = 0
    /\ Len(src) = data_config.num_frames
    /\ fs.transforms = <<manifest>>

\* C1: for a manifest with distinct integer stems in any stored order, the
\* colour paths and depth paths the Reader returns are in ascending order of
\* the stem, and the poses are those of the frames in that order.
C1_ExposedInStemOrder ==
    rpc = "ready" =>
        LET cp == returned.paths[1]
            dp == returned.paths[2]
        IN  /\ \A i, j \in 1..Len(cp) : i < j => StemOf(cp[i]) < StemOf(cp[j])
            /\ \A i, j \in 1..Len(dp) : i < j => StemOf(dp[i]) < StemOf(dp[j])
            /\ \A i \in 1..Len(cp) :
                   \E k \in 1..Len(manifest_file.frames) :
                       /\ manifest_file.frames[k].file_path = cp[i]
                       /\ returned.poses[i] =
                              ToGradSLAM(manifest_file.frames[k].transform_matrix)

\* an answer that accepts the prompt's default (Y) or starts with y or Y
Affirmative(answer) ==
    LET t == Strip(Lower(answer)) IN t = <<>> \/ Head(t) = "y"

\* the overwrite was configured and the prompt was answered affirmatively
Confirmed == overwrite /\ stdin0 # <<>> /\ Affirmative(Head(stdin0))

\* C2: when save_path exists and the overwrite is not confirmed (overwrite
\* not configured, or the prompt not answered affirmatively), the run ends
\* with a non-zero exit status and the tree at save_path stays as it was; so
\* the tree is deleted only after a confirmation.
C2_NoConfirmationNoChange ==
    (fs0.exists /\ ~Confirmed) =>
        /\ fs = fs0
        /\ wpc = "check" \/ (wpc = "exited" /\ exit_code > 0)

C2_Witness ==
    /\ fs0 = StaleTree
    /\ overwrite
    /\ stdin0 = << <<" ", "n">> >>
    /\ wpc = "exited"
    /\ exit_code = 1
    /\ fs = StaleTree

\* C3: a frame index whose colour source is missing is skipped without
\* aborting: the run can go on, it visits the remaining indices and writes
\* the manifest, the manifest then has fewer than num_frames entries, and no
\* entry has file_path rgb/{i}.png.
C3_SkippedFrameLeftOut ==
    \A k \in 1..Len(src) :
        ~src[k].color =>
            /\ NotAborted
            /\ EntriesOf(k - 1) = {}
            /\ wpc = "frames" => ENABLED WNext
            /\ wpc = "done" =>
                   /\ Completed
                   /\ Len(fs.transforms[1].frames) < data_config.num_frames
                   /\ \A e \in 1..Len(fs.transforms[1].frames) :
                          fs.transforms[1].frames[e].file_path # RelPath("rgb", k - 1)

C3_Witness ==
    /\ Completed
    /\ Len(src) >= 2
    /\ ~src[1].color
    /\ src[2].color
    /\ Len(manifest.frames) = Len(src) - 1

\* C4: a processed frame has exactly one entry; the entry has depth_path =
\* depth/{i}.png exactly when the depth source exists, and depth/{i}.png is in
\* the tree exactly when the entry has depth_path; a missing depth source
\* does not abort the run.
C4_DepthPathIffDepthSource ==
    \A k \in 1..Len(src) :
        src[k].color =>
            /\ NotAborted
            /\ Cardinality(EntriesOf(k - 1)) = 1
            /\ \A n \in EntriesOf(k - 1) :
                   LET e == manifest.frames[n]
                       has_field == "depth_path" \in DOMAIN e
                   IN  /\ has_field <=> src[k].depth.kind = "ok"
                       /\ has_field => e.depth_path = RelPath("depth", k - 1)
                       /\ has_field <=> (\E x \in fs.depth : x.idx = k - 1)

C4_Witness ==
    /\ Completed
    /\ fs0 = StaleTree
    /\ Len(src) >= 2
    /\ src[1].color /\ src[1].depth.kind = "missing"
    /\ src[2].color /\ src[2].depth.kind = "ok"
    /\ "depth_path" \notin DOMAIN manifest.frames[1]
    /\ "depth_path" \in DOMAIN manifest.frames[2]

Meters(raw, in_mm) == Rat(raw.num, raw.den * (IF in_mm THEN MillimetersPerMeter ELSE 1))

\* | q / s - d | <= 1 / s
WithinOneStep(q, d, s) == Abs(q * d.den - d.num * s) <= d.den

\* C6: the Reader's png_depth_scale = 1 / integer_depth_scale takes the
\* stored value back to meters: | q / png_depth_scale - d | <= 1 / s.
C6_ReaderScaleRecoversMeters ==
    dpc = "read" =>
        LET d == Meters(draw, dmm)
            a == dstored * dpng.den * d.den - d.num * dpng.num
        IN  Abs(a) <= (dpng.num * d.den) \div dscale

\* C7 as stated: with depth scale 65535 the manifest's integer_depth_scale is
\* 1 and the Reader's png_depth_scale = 1 / integer_depth_scale is 65535.
C7_ScaleRoundTrip ==
    (dpc = "read" /\ dscale = IntegerDepthDivisor) =>
        /\ dids = Rat(1, 1)
        /\ dpng = Rat(IntegerDepthDivisor, 1)

\* C7 as amended: with depth scale 65535 the manifest's integer_depth_scale is
\* 1 and the Reader's png_depth_scale = 1 / integer_depth_scale is 1.
C7_ScaleRoundTripToOne ==
    (dpc = "read" /\ dscale = IntegerDepthDivisor) =>
        /\ dids = Rat(1, 1)
        /\ dpng = Rat(1, 1)

C7_Witness ==
    /\ dpc = "read"
    /\ dscale = IntegerDepthDivisor
    /\ dids = Rat(1, 1)
    /\ dpng = Rat(1, 1)
    /\ dstored > 0

\* d * s fits in 16 bits
FitsUint16(d, s) == d.num * s < Uint16Modulus * d.den

\* C8 as stated: for every depth d and scale s, | q / s - d | <= 1 / s,
\* also when d * s does not fit in 16 bits.
C8_RoundTripAnyDepth ==
    dpc \in {"stored", "read"} => WithinOneStep(dstored, Meters(draw, dmm), dscale)

\* C8 as amended: for every depth d and scale s with d * s < 2^16,
\* | q / s - d | <= 1 / s.
C8_RoundTripInRange ==
    (dpc \in {"stored", "read"} /\ FitsUint16(Meters(draw, dmm), dscale)) =>
        WithinOneStep(dstored, Meters(draw, dmm), dscale)

C8_Witness ==
    /\ dpc = "stored"
    /\ dmm
    /\ dscale = DefaultDepthScale
    /\ FitsUint16(Meters(draw, dmm), dscale)
    /\ dstored > 0
    /\ dstored * Meters(draw, dmm).den # Meters(draw, dmm).num * dscale

\* C9: the conversion C -> P C P^T applied twice gives C back.
C9_ConversionTwiceIsIdentity == napplied = 2 => pose = c2w0

C9_Witness ==
    /\ napplied = 2
    /\ pose = c2w0
    /\ c2w0 # Transpose(c2w0)
    /\ ToGradSLAM(c2w0) # c2w0

\* frame k has a recoverable error
RecoverableError(k) ==
    \/ ~src[k].color
    \/ src[k].color /\ src[k].depth.kind = "missing"
    \/ src[k].color /\ "pose_format" \in DOMAIN data_config
                    /\ src[k].pose.kind \in {"missing", "unreadable"}

\* C10: every recoverable per-frame error is followed, before the next frame,
\* by a message about that frame (the progress line "Processing frame" comes
\* before the error and is not one), and none aborts the run.
C10_RecoverableErrorsLogged ==
    \A k \in 1..Len(src) :
        RecoverableError(k) =>
            /\ NotAborted
            /\ \E n \in 1..Len(log) :
                   log[n].frame = k - 1 /\ log[n].msg # "Processing frame"

====
